---- MODULE Spec2Model ----
(***************************************************************************)
(* Session store, command queues and command dispatch of backend/main.py.  *)
(*                                                                         *)
(* Every endpoint is an `async def` without an await between its first and *)
(* last statement that touches `sessions`, so the event loop runs each     *)
(* handler to completion: one action per handler.  `running` is the        *)
(* handler that holds the event loop between two of its statements; only   *)
(* SpecLoop, which takes play_scene and play_scenes in two steps, makes it *)
(* visible.                                                                *)
(*                                                                         *)
(* Python's Optional[T] is modelled as a sequence of length at most one:   *)
(* None is << >> and a value v is << v >>.                                 *)
(***************************************************************************)
EXTENDS Integers, Sequences, FiniteSets, TLC

VARIABLES sessions, now, running

vars == <<sessions, now, running>>

(***************************************************************************)
(* Bounds of the model.                                                    *)
(***************************************************************************)
MaxQueue == 2
MaxScenes == 2
MaxTime == 1
MaxTimeout == 0

(***************************************************************************)
(* Input domains.                                                          *)
(***************************************************************************)
None == << >>
Some(v) == << v >>

\* client ids a client can poll or report with; "" is a legal query value
ClientIds == {"", "a"}
OptClientIds == {None} \cup {Some(c) : c \in ClientIds}
OptBool == {None, Some(TRUE), Some(FALSE)}
Profiles == {"p1"}
SceneNames == {"s1", "s2"}


\* Python truthiness (`if x:`) of an Optional[str]: None and "" are falsy
TruthyStr(opt) == opt # None /\ opt[1] # ""

\* Python truthiness (`if x:`) of an Optional[bool]: None and False are falsy
TruthyBool(opt) == opt = Some(TRUE)

\* all sequences over S of length 0..n
SeqsUpTo(S, n) == UNION {[1..k -> S] : k \in 0..n}

(***************************************************************************)
(* Data model.                                                             *)
(***************************************************************************)
\* class Command(BaseModel): payload: Dict[str, Any]; interrupt: bool
Command(payload, interrupt) == [payload |-> payload, interrupt |-> interrupt]

\* ClientSession.__init__, constructed at time t
ClientSession(t) ==
  [queue |-> << >>,
   state |-> [current_profile |-> None,
              current_scene |-> None,
              queue_size |-> 0,
              is_looping |-> FALSE,
              last_report_ts |-> 0,
              is_muted |-> FALSE,
              is_sync_enabled |-> TRUE],
   last_seen |-> t]

\* get_or_create_session constructing a session on every lookup
get_or_create_session_fresh(client_id) ==
  [c \in DOMAIN sessions \cup {client_id} |->
     IF c = client_id THEN ClientSession(now) ELSE sessions[c]]

\* the sessions dict after get_or_create_session(client_id)
get_or_create_session(client_id) ==
  LET created == [c \in DOMAIN sessions \cup {client_id} |->
                    IF c \in DOMAIN sessions THEN sessions[c]
                                             ELSE ClientSession(now)]
  IN [created EXCEPT ![client_id].last_seen = now]

\* what a handler leaves behind: the sessions dict and the HTTP response
Result(s, endpoint, code, body) ==
  [sessions |-> s,
   response |-> [endpoint |-> endpoint, code |-> code, body |-> body]]

\* target_sessions with the broadcast stopping after one session
target_sessions_one(client_id) ==
  IF TruthyStr(client_id)
    THEN IF client_id[1] \in DOMAIN sessions THEN {client_id[1]} ELSE {}
    ELSE IF DOMAIN sessions = {} THEN {}
         ELSE {CHOOSE c \in DOMAIN sessions : TRUE}

\* the ids of `target_sessions` as every controller endpoint resolves them:
\*   if client_id: (if client_id in sessions: [sessions[client_id]])
\*   else: list(sessions.values())
target_sessions(client_id) ==
  IF TruthyStr(client_id)
    THEN IF client_id[1] \in DOMAIN sessions THEN {client_id[1]} ELSE {}
    ELSE DOMAIN sessions

\* the external scene-definition files as one request finds them
FileStates ==
  [settings : {"ok"}, scenes_file : {"ok"}, scenes : {SceneNames, {"s2"}}]
  \cup [settings : {"ok"}, scenes_file : {"missing", "error"}, scenes : {{}}]
  \cup [settings : {"error"}, scenes_file : {"ok"}, scenes : {SceneNames}]

\* settings.json / scenes.json loading shared by play_scene and play_scenes:
\* an unreadable file is a 500, a missing scenes.json is the empty mapping
load_scenes(fs) ==
  IF fs.settings # "ok"
    THEN [code |-> 500, detail |-> "Failed to read settings.json", scenes |-> {}]
  ELSE IF fs.scenes_file = "missing"
    THEN [code |-> 200, detail |-> "", scenes |-> {}]
  ELSE IF fs.scenes_file # "ok"
    THEN [code |-> 500, detail |-> "Failed to read scenes.json", scenes |-> {}]
  ELSE [code |-> 200, detail |-> "", scenes |-> fs.scenes]

\* clear_queues with the clear left out
clear_queues_none(s, targets) == s

\* sess.queue.clear() for every target
clear_queues(s, targets) ==
  [c \in DOMAIN s |-> IF c \in targets THEN [s[c] EXCEPT !.queue = << >>] ELSE s[c]]

\* sess.queue.append(command) for every target, for each command in order
append_all(s, targets, commands) ==
  [c \in DOMAIN s |->
     IF c \in targets THEN [s[c] EXCEPT !.queue = @ \o commands] ELSE s[c]]

(***************************************************************************)
(* Request bodies.                                                         *)
(***************************************************************************)
\* class CommandInput
CommandInput == [profile : {Some(p) : p \in Profiles}, client_id : OptClientIds]

\* class PlayRequest
PlayRequest ==
  [scene : SceneNames, loop : {Some(FALSE)}, audio_url : {None}, msg : {None},
   interrupt : OptBool, client_id : OptClientIds]

\* class PlayScenesRequest; an explicit null for interrupt is falsy at its
\* only uses (lines 295 and 325) like false and is left out
PlayScenesRequest ==
  [scenes : SeqsUpTo(SceneNames, MaxScenes),
   interrupt : {Some(TRUE), Some(FALSE)}, client_id : OptClientIds]

\* class StatusUpdate
StatusUpdate ==
  [client_id : OptClientIds, is_muted : OptBool, is_sync_enabled : OptBool]

\* class StatusReport
StatusReport ==
  [client_id : ClientIds, current_profile : {None}, current_scene : {None},
   queue_size : {0}, is_looping : {FALSE}]
  \cup [client_id : ClientIds, current_profile : {Some(p) : p \in Profiles},
        current_scene : {Some("s1")}, queue_size : {1}, is_looping : {TRUE}]

(***************************************************************************)
(* Initial state: the module has just been imported.                       *)
(***************************************************************************)
Init ==
  /\ sessions = [c \in {} |-> ClientSession(0)]
  /\ now = 0
  /\ running = None

(***************************************************************************)
(* The endpoints, each as the function from the current state and the      *)
(* request to the resulting sessions dict and response.                    *)
(***************************************************************************)
\* get_next_command taking the newest command (pop() for popleft())
get_next_command_newest(client_id) ==
  LET s == get_or_create_session(client_id)
      queue == s[client_id].queue
  IN IF queue # << >>
       THEN Result([s EXCEPT ![client_id].queue = SubSeq(queue, 1, Len(queue) - 1)],
                   "queue", 200, Some(queue[Len(queue)]))
       ELSE Result(s, "queue", 200, None)

\* get_next_command returning the head without popleft()
get_next_command_peek(client_id) ==
  LET s == get_or_create_session(client_id)
      queue == s[client_id].queue
  IN IF queue # << >>
       THEN Result(s, "queue", 200, Some(Head(queue)))
       ELSE Result(s, "queue", 200, None)

\* get_next_command holding back the last command (`len(queue) > 1`)
get_next_command_holdlast(client_id) ==
  LET s == get_or_create_session(client_id)
      queue == s[client_id].queue
  IN IF Len(queue) > 1
       THEN Result([s EXCEPT ![client_id].queue = Tail(queue)], "queue", 200,
                   Some(Head(queue)))
       ELSE Result(s, "queue", 200, None)

\* GET /api/queue?client_id=...
get_next_command(client_id) ==
  LET s == get_or_create_session(client_id)
      queue == s[client_id].queue
  IN IF queue # << >>
       THEN Result([s EXCEPT ![client_id].queue = Tail(queue)], "queue", 200,
                   Some(Head(queue)))
       ELSE Result(s, "queue", 200, None)

\* report_status resetting the whole state dict to the reported fields
report_status_reset(report) ==
  LET s == get_or_create_session(report.client_id)
  IN Result([s EXCEPT ![report.client_id].state =
               [ClientSession(now).state EXCEPT
                  !.current_profile = report.current_profile,
                  !.current_scene = report.current_scene,
                  !.queue_size = report.queue_size,
                  !.is_looping = report.is_looping]],
            "report", 200, [status |-> "ok"])

\* POST /api/report
report_status(report) ==
  LET s == get_or_create_session(report.client_id)
  IN Result([s EXCEPT ![report.client_id].state =
               [@ EXCEPT !.current_profile = report.current_profile,
                         !.current_scene = report.current_scene,
                         !.queue_size = report.queue_size,
                         !.is_looping = report.is_looping]],
            "report", 200, [status |-> "ok"])

\* get_status taking queue_length from the client-reported queue_size
get_status_reported ==
  Result(sessions, "getStatus", 200,
         [clients |->
            [cid \in DOMAIN sessions |->
               [queue_length |-> sessions[cid].state.queue_size,
                model_state |-> sessions[cid].state,
                last_seen_seconds_ago |-> now - sessions[cid].last_seen]],
          active_session_count |-> Cardinality(DOMAIN sessions)])

\* GET /api/status
get_status ==
  Result(sessions, "getStatus", 200,
         [clients |->
            [cid \in DOMAIN sessions |->
               [queue_length |-> Len(sessions[cid].queue),
                model_state |-> sessions[cid].state,
                last_seen_seconds_ago |-> now - sessions[cid].last_seen]],
          active_session_count |-> Cardinality(DOMAIN sessions)])

\* update_status marking its targets as seen (last_seen = time.time())
update_status_touching(update) ==
  LET targets == target_sessions(update.client_id)
  IN Result([c \in DOMAIN sessions |->
               IF c \in targets
                 THEN [sessions[c] EXCEPT
                         !.state.is_muted =
                            IF update.is_muted # None THEN update.is_muted[1] ELSE @,
                         !.state.is_sync_enabled =
                            IF update.is_sync_enabled # None
                              THEN update.is_sync_enabled[1] ELSE @,
                         !.last_seen = now]
                 ELSE sessions[c]],
            "updateStatus", 200, [status |-> "updated", targets |-> Cardinality(targets)])

\* POST /api/status
update_status(update) ==
  LET targets == target_sessions(update.client_id)
  IN Result([c \in DOMAIN sessions |->
               IF c \in targets
                 THEN [sessions[c] EXCEPT
                         !.state.is_muted =
                            IF update.is_muted # None THEN update.is_muted[1] ELSE @,
                         !.state.is_sync_enabled =
                            IF update.is_sync_enabled # None
                              THEN update.is_sync_enabled[1] ELSE @]
                 ELSE sessions[c]],
            "updateStatus", 200, [status |-> "updated", targets |-> Cardinality(targets)])

\* apply_profile creating the session it is asked to target
apply_profile_creating(command_input) ==
  LET internal_command ==
        Command([profile |-> command_input.profile], FALSE)
      s == IF TruthyStr(command_input.client_id)
             THEN get_or_create_session(command_input.client_id[1])
             ELSE sessions
      targets == IF TruthyStr(command_input.client_id)
                   THEN {command_input.client_id[1]} ELSE DOMAIN sessions
  IN Result(append_all(s, targets, <<internal_command>>),
            "applyProfile", 200,
            [status |-> "queued", targets |-> Cardinality(targets)])

\* apply_profile building its command with interrupt=True
apply_profile_interrupting(command_input) ==
  LET internal_command ==
        Command([profile |-> command_input.profile], TRUE)
      targets == target_sessions(command_input.client_id)
  IN Result(append_all(sessions, targets, <<internal_command>>),
            "applyProfile", 200,
            [status |-> "queued", targets |-> Cardinality(targets)])

\* POST /api/applyProfile
apply_profile(command_input) ==
  LET internal_command ==
        Command([profile |-> command_input.profile], FALSE)
      targets == target_sessions(command_input.client_id)
  IN Result(append_all(sessions, targets, <<internal_command>>),
            "applyProfile", 200,
            [status |-> "queued", targets |-> Cardinality(targets)])

\* POST /api/playScene
play_scene(req, fs) ==
  LET targets == target_sessions(req.client_id)
      \* Handle interrupt
      cleared == IF TruthyBool(req.interrupt)
                   THEN clear_queues(sessions, targets) ELSE sessions
      \* Validate scene exists
      loaded == load_scenes(fs)
      command == Command([scene |-> req.scene, loop |-> req.loop,
                          audio_url |-> req.audio_url, msg |-> req.msg],
                         TruthyBool(req.interrupt))
  IN IF loaded.code # 200
       THEN Result(cleared, "playScene", 500, [detail |-> loaded.detail])
     ELSE IF req.scene \notin loaded.scenes
       THEN Result(cleared, "playScene", 404, [detail |-> "Scene not found"])
     ELSE IF req.interrupt = None
       \* Command(interrupt=None) fails the validation of the bool field
       THEN Result(cleared, "playScene", 500, [detail |-> "Internal Server Error"])
     ELSE Result(append_all(cleared, targets, <<command>>),
                 "playScene", 200,
                 [status |-> "queued", targets |-> Cardinality(targets)])

\* play_scenes_loop without `first_command = False`
RECURSIVE play_scenes_loop_keepfirst(_, _, _, _)
play_scenes_loop_keepfirst(scenes, available_scenes, interrupt, first_command) ==
  IF scenes = << >>
    THEN [commands |-> << >>, queued_scenes |-> << >>]
  ELSE LET scene_name == Head(scenes) IN
    IF scene_name \in available_scenes
      THEN LET should_interrupt == first_command /\ TruthyBool(interrupt)
               command == Command([scene |-> scene_name, loop |-> Some(FALSE),
                                   audio_url |-> None, msg |-> None],
                                  should_interrupt)
               rest == play_scenes_loop_keepfirst(Tail(scenes), available_scenes,
                                                  interrupt, first_command)
           IN [commands |-> <<command>> \o rest.commands,
               queued_scenes |-> <<scene_name>> \o rest.queued_scenes]
      ELSE play_scenes_loop_keepfirst(Tail(scenes), available_scenes, interrupt,
                                      first_command)

\* the `for scene_name in request.scenes` loop of play_scenes: the commands
\* appended to every target and the names collected in queued_scenes
RECURSIVE play_scenes_loop(_, _, _, _)
play_scenes_loop(scenes, available_scenes, interrupt, first_command) ==
  IF scenes = << >>
    THEN [commands |-> << >>, queued_scenes |-> << >>]
  ELSE LET scene_name == Head(scenes) IN
    IF scene_name \in available_scenes
      THEN LET should_interrupt == first_command /\ TruthyBool(interrupt)
               command == Command([scene |-> scene_name, loop |-> Some(FALSE),
                                   audio_url |-> None, msg |-> None],
                                  should_interrupt)
               rest == play_scenes_loop(Tail(scenes), available_scenes,
                                        interrupt, FALSE)
           IN [commands |-> <<command>> \o rest.commands,
               queued_scenes |-> <<scene_name>> \o rest.queued_scenes]
      ELSE play_scenes_loop(Tail(scenes), available_scenes, interrupt,
                            first_command)

\* play_scenes with the `if request.interrupt:` clear left out
play_scenes_noclear(req, fs) ==
  LET targets == target_sessions(req.client_id)
      loaded == load_scenes(fs)
      loop == play_scenes_loop(req.scenes, loaded.scenes, req.interrupt, TRUE)
  IN IF loaded.code # 200
       THEN Result(sessions, "playScenes", 500, [detail |-> loaded.detail])
       ELSE Result(append_all(sessions, targets, loop.commands),
                   "playScenes", 200,
                   [status |-> "ok", queued |-> loop.queued_scenes,
                    targets |-> Cardinality(targets)])

\* play_scenes clearing only when a scene was accepted
play_scenes_lazyclear(req, fs) ==
  LET targets == target_sessions(req.client_id)
      loaded == load_scenes(fs)
      loop == play_scenes_loop(req.scenes, loaded.scenes, req.interrupt, TRUE)
      cleared == IF TruthyBool(req.interrupt) /\ loop.commands # << >>
                   THEN clear_queues(sessions, targets) ELSE sessions
  IN IF loaded.code # 200
       THEN Result(cleared, "playScenes", 500, [detail |-> loaded.detail])
       ELSE Result(append_all(cleared, targets, loop.commands),
                   "playScenes", 200,
                   [status |-> "ok", queued |-> loop.queued_scenes,
                    targets |-> Cardinality(targets)])

\* POST /api/playScenes
play_scenes(req, fs) ==
  LET targets == target_sessions(req.client_id)
      \* Handle interrupt
      cleared == IF TruthyBool(req.interrupt)
                   THEN clear_queues(sessions, targets) ELSE sessions
      \* Load scenes
      loaded == load_scenes(fs)
      loop == play_scenes_loop(req.scenes, loaded.scenes, req.interrupt, TRUE)
  IN IF loaded.code # 200
       THEN Result(cleared, "playScenes", 500, [detail |-> loaded.detail])
       ELSE Result(append_all(cleared, targets, loop.commands),
                   "playScenes", 200,
                   [status |-> "ok", queued |-> loop.queued_scenes,
                         targets |-> Cardinality(targets)])

\* play_scene and play_scenes up to the first statement after the interrupt
\* clear: the targets and the sessions with their queues cleared
play_clear(req) ==
  LET targets == target_sessions(req.client_id)
  IN [targets |-> targets,
      sessions |-> IF TruthyBool(req.interrupt)
                     THEN clear_queues(sessions, targets) ELSE sessions]

\* play_scene from "Validate scene exists" on, resumed on the sessions s
play_scene_enqueue(s, req, targets, fs) ==
  LET loaded == load_scenes(fs)
      command == Command([scene |-> req.scene, loop |-> req.loop,
                          audio_url |-> req.audio_url, msg |-> req.msg],
                         TruthyBool(req.interrupt))
  IN IF loaded.code # 200
       THEN Result(s, "playScene", 500, [detail |-> loaded.detail])
     ELSE IF req.scene \notin loaded.scenes
       THEN Result(s, "playScene", 404, [detail |-> "Scene not found"])
     ELSE IF req.interrupt = None
       THEN Result(s, "playScene", 500, [detail |-> "Internal Server Error"])
     ELSE Result(append_all(s, targets, <<command>>),
                 "playScene", 200,
                 [status |-> "queued", targets |-> Cardinality(targets)])

\* play_scenes from "Load scenes" on, resumed on the sessions s
play_scenes_enqueue(s, req, targets, fs) ==
  LET loaded == load_scenes(fs)
      loop == play_scenes_loop(req.scenes, loaded.scenes, req.interrupt, TRUE)
  IN IF loaded.code # 200
       THEN Result(s, "playScenes", 500, [detail |-> loaded.detail])
       ELSE Result(append_all(s, targets, loop.commands),
                   "playScenes", 200,
                   [status |-> "ok", queued |-> loop.queued_scenes,
                    targets |-> Cardinality(targets)])

\* cleanup_sessions comparing with >= for >
cleanup_sessions_ge(timeout_seconds) ==
  LET to_remove == {cid \in DOMAIN sessions :
                      now - sessions[cid].last_seen >= timeout_seconds}
  IN [cid \in DOMAIN sessions \ to_remove |-> sessions[cid]]

\* cleanup_sessions(timeout_seconds): the sessions dict it leaves
cleanup_sessions(timeout_seconds) ==
  LET to_remove == {cid \in DOMAIN sessions :
                      now - sessions[cid].last_seen > timeout_seconds}
  IN [cid \in DOMAIN sessions \ to_remove |-> sessions[cid]]

(***************************************************************************)
(* Actions: one request handled from start to end.  The response goes to   *)
(* the caller and is not kept.                                             *)
(***************************************************************************)
\* the model keeps every queue within MaxQueue
WithinBounds(s) == \A c \in DOMAIN s : Len(s[c].queue) <= MaxQueue

\* handlers declared `def`: run on worker threads, started at any time
EventLoopIdle_threadpool == TRUE

\* the handlers are coroutines of the one event loop of uvicorn.run(app): a
\* request is taken up only when no handler is between two statements
EventLoopIdle == running = None

Poll ==
  \E client_id \in ClientIds :
    LET result == get_next_command(client_id) IN
      /\ EventLoopIdle
      /\ WithinBounds(result.sessions)
      /\ sessions' = result.sessions
      /\ UNCHANGED <<now, running>>

\* the poll of one client, for the fairness of that client's polling
PollBy(client_id) ==
  LET result == get_next_command(client_id) IN
    /\ EventLoopIdle
    /\ WithinBounds(result.sessions)
    /\ sessions' = result.sessions
    /\ UNCHANGED <<now, running>>

Report ==
  \E report \in StatusReport :
    LET result == report_status(report) IN
      /\ EventLoopIdle
      /\ WithinBounds(result.sessions)
      /\ sessions' = result.sessions
      /\ UNCHANGED <<now, running>>

GetStatus ==
  /\ EventLoopIdle
  /\ sessions' = get_status.sessions
  /\ UNCHANGED <<now, running>>

UpdateStatus ==
  \E update \in StatusUpdate :
    LET result == update_status(update) IN
      /\ EventLoopIdle
      /\ WithinBounds(result.sessions)
      /\ sessions' = result.sessions
      /\ UNCHANGED <<now, running>>

ApplyProfile ==
  \E command_input \in CommandInput :
    LET result == apply_profile(command_input) IN
      /\ EventLoopIdle
      /\ WithinBounds(result.sessions)
      /\ sessions' = result.sessions
      /\ UNCHANGED <<now, running>>

PlayScene ==
  \E req \in PlayRequest, fs \in FileStates :
    LET result == play_scene(req, fs) IN
      /\ EventLoopIdle
      /\ WithinBounds(result.sessions)
      /\ sessions' = result.sessions
      /\ UNCHANGED <<now, running>>

PlayScenes ==
  \E req \in PlayScenesRequest, fs \in FileStates :
    LET result == play_scenes(req, fs) IN
      /\ EventLoopIdle
      /\ WithinBounds(result.sessions)
      /\ sessions' = result.sessions
      /\ UNCHANGED <<now, running>>

Cleanup ==
  \E timeout_seconds \in 0..MaxTimeout :
    /\ EventLoopIdle
    /\ sessions' = cleanup_sessions(timeout_seconds)
    /\ UNCHANGED <<now, running>>

\* play_scene, lines 226-237: targets and interrupt clear; the handler keeps
\* the event loop
PlaySceneClear ==
  \E req \in PlayRequest :
    LET cleared == play_clear(req) IN
      /\ EventLoopIdle
      /\ \A c \in cleared.targets : Len(cleared.sessions[c].queue) < MaxQueue
      /\ sessions' = cleared.sessions
      /\ running' = Some([endpoint |-> "playScene", request |-> req,
                          targets |-> cleared.targets])
      /\ UNCHANGED now

\* play_scene, lines 239-275: load, validate, append, return
PlaySceneEnqueue ==
  \E fs \in FileStates :
    /\ running # None
    /\ running[1].endpoint = "playScene"
    /\ sessions' = play_scene_enqueue(sessions, running[1].request,
                                      running[1].targets, fs).sessions
    /\ running' = None
    /\ UNCHANGED now

\* play_scenes, lines 286-297
PlayScenesClear ==
  \E req \in PlayScenesRequest :
    LET cleared == play_clear(req) IN
      /\ EventLoopIdle
      /\ \A c \in cleared.targets :
           Len(cleared.sessions[c].queue) + Len(req.scenes) <= MaxQueue
      /\ sessions' = cleared.sessions
      /\ running' = Some([endpoint |-> "playScenes", request |-> req,
                          targets |-> cleared.targets])
      /\ UNCHANGED now

\* play_scenes, lines 299-349
PlayScenesEnqueue ==
  \E fs \in FileStates :
    /\ running # None
    /\ running[1].endpoint = "playScenes"
    /\ sessions' = play_scenes_enqueue(sessions, running[1].request,
                                       running[1].targets, fs).sessions
    /\ running' = None
    /\ UNCHANGED now

\* time.time() advances between requests
Tick ==
  /\ now < MaxTime
  /\ now' = now + 1
  /\ UNCHANGED <<sessions, running>>

(***************************************************************************)
(* Specification.                                                          *)
(***************************************************************************)
Next ==
  \/ Poll
  \/ Report
  \/ GetStatus
  \/ UpdateStatus
  \/ ApplyProfile
  \/ PlayScene
  \/ PlayScenes
  \/ Cleanup
  \/ Tick

Spec == Init /\ [][Next]_vars

\* command dispatch and delivery alone: the clock stands still and no status
\* is reported or pushed
NextDispatch ==
  \/ Poll
  \/ ApplyProfile
  \/ PlayScene
  \/ PlayScenes

SpecDispatch == Init /\ [][NextDispatch]_vars

\* session lifecycle and status: clients poll and report, controllers read
\* and push status and send profile commands, the clock advances and stale
\* sessions are reaped
NextSessions ==
  \/ Poll
  \/ Report
  \/ GetStatus
  \/ UpdateStatus
  \/ ApplyProfile
  \/ Cleanup
  \/ Tick

SpecSessions == Init /\ [][NextSessions]_vars

\* the two scene handlers statement group by statement group, with the
\* clients' polls, a second controller's profile commands and the clock
NextLoop ==
  \/ Poll
  \/ ApplyProfile
  \/ PlaySceneClear
  \/ PlaySceneEnqueue
  \/ PlayScenesClear
  \/ PlayScenesEnqueue
  \/ Tick

SpecLoop == Init /\ [][NextLoop]_vars

\* delivery: clients poll and report and a controller keeps sending profile
\* commands; nothing interrupts and nothing is swept.  Every client polls
\* again and again (the frontend polls on a timer), and a poll is always
\* possible, so weak fairness of each client's poll is what the clients do.
NextLive ==
  \/ Poll
  \/ Report
  \/ ApplyProfile
  \/ Tick

SpecLive ==
  /\ Init
  /\ [][NextLive]_vars
  /\ \A client_id \in ClientIds : WF_vars(PollBy(client_id))

(***************************************************************************)
(* Properties.  A property of an endpoint is stated over the endpoint's    *)
(* result in every reachable state and for every request of the bounded    *)
(* request sets, also the requests the queue bound keeps from being taken. *)
(***************************************************************************)
QueueOf(s, c) == s[c].queue

\* the command an apply-profile request is to deliver
ProfileCommand(command_input) ==
  [payload |-> [profile |-> command_input.profile], interrupt |-> FALSE]

\* the command a play-scene request / batch item is to deliver
SceneCommand(scene, loop, audio_url, msg, interrupt) ==
  [payload |-> [scene |-> scene, loop |-> loop, audio_url |-> audio_url,
                msg |-> msg],
   interrupt |-> interrupt]

\* the scene definitions a request finds, when both files can be read
Readable(fs) == fs.settings = "ok" /\ fs.scenes_file \in {"ok", "missing"}
Defined(fs) == IF fs.scenes_file = "ok" THEN fs.scenes ELSE {}

\* the requested names that are defined, in request order
Accepted(scenes, fs) == SelectSeq(scenes, LAMBDA n : n \in Defined(fs))

\* the commands a batch is to deliver
BatchCommands(req, fs) ==
  [i \in 1..Len(Accepted(req.scenes, fs)) |->
     SceneCommand(Accepted(req.scenes, fs)[i], Some(FALSE), None, None,
                  i = 1 /\ req.interrupt = Some(TRUE))]

IsSuffix(p, q) == Len(p) <= Len(q) /\ SubSeq(q, Len(q) - Len(p) + 1, Len(q)) = p

\* C1: a request that names an existing session by client_id leaves the queue
\* and the reported state of every other session as they were
C1_TargetedLeavesOthers ==
  \A cid \in DOMAIN sessions : \A other \in DOMAIN sessions \ {cid} :
    /\ \A ci \in CommandInput :
         ci.client_id = Some(cid) =>
           apply_profile(ci).sessions[other] = sessions[other]
    /\ \A req \in PlayRequest, fs \in FileStates :
         req.client_id = Some(cid) =>
           play_scene(req, fs).sessions[other] = sessions[other]
    /\ \A req \in PlayScenesRequest, fs \in FileStates :
         req.client_id = Some(cid) =>
           play_scenes(req, fs).sessions[other] = sessions[other]

\* C2: a successful request without client_id appends its commands to the
\* queue of every session that exists, reports their number as targets and
\* creates no session; a session created by a later poll or report starts
\* with an empty queue and the poll returns no command
C2_Broadcast ==
  /\ \A ci \in CommandInput :
       ci.client_id = None =>
         LET r == apply_profile(ci) IN
           /\ DOMAIN r.sessions = DOMAIN sessions
           /\ r.response.body.targets = Cardinality(DOMAIN sessions)
           /\ \A c \in DOMAIN sessions :
                IsSuffix(<<ProfileCommand(ci)>>, QueueOf(r.sessions, c))
  /\ \A req \in PlayRequest, fs \in FileStates :
       LET r == play_scene(req, fs) IN
         (req.client_id = None /\ r.response.code = 200) =>
           /\ DOMAIN r.sessions = DOMAIN sessions
           /\ r.response.body.targets = Cardinality(DOMAIN sessions)
           /\ \A c \in DOMAIN sessions :
                IsSuffix(<<SceneCommand(req.scene, req.loop, req.audio_url,
                                        req.msg, req.interrupt = Some(TRUE))>>,
                         QueueOf(r.sessions, c))
  /\ \A req \in PlayScenesRequest, fs \in FileStates :
       LET r == play_scenes(req, fs) IN
         (req.client_id = None /\ r.response.code = 200) =>
           /\ DOMAIN r.sessions = DOMAIN sessions
           /\ r.response.body.targets = Cardinality(DOMAIN sessions)
           /\ \A c \in DOMAIN sessions :
                IsSuffix(BatchCommands(req, fs), QueueOf(r.sessions, c))
  /\ \A cid \in ClientIds \ DOMAIN sessions :
       /\ get_next_command(cid).sessions[cid].queue = << >>
       /\ get_next_command(cid).response.body = None
       /\ \A report \in StatusReport :
            report.client_id = cid =>
              report_status(report).sessions[cid].queue = << >>

\* C2 witness: a broadcast reached both sessions
C2_Witness ==
  /\ DOMAIN sessions = ClientIds
  /\ \A c \in DOMAIN sessions :
       sessions[c].queue =
         <<SceneCommand("s1", Some(FALSE), None, None, FALSE),
           ProfileCommand([profile |-> Some("p1")])>>

\* C3: without an interrupt, every enqueueing request keeps what a queue
\* holds and puts its commands behind it, and a poll hands out the head and
\* leaves the rest in order
C3_Fifo ==
  /\ \A ci \in CommandInput, c \in DOMAIN sessions :
       QueueOf(apply_profile(ci).sessions, c) \in
         {sessions[c].queue, sessions[c].queue \o <<ProfileCommand(ci)>>}
  /\ \A req \in PlayRequest, fs \in FileStates, c \in DOMAIN sessions :
       req.interrupt # Some(TRUE) =>
         QueueOf(play_scene(req, fs).sessions, c) \in
           {sessions[c].queue,
            sessions[c].queue \o <<SceneCommand(req.scene, req.loop, req.audio_url,
                                                req.msg, FALSE)>>}
  /\ \A req \in PlayScenesRequest, fs \in FileStates, c \in DOMAIN sessions :
       req.interrupt # Some(TRUE) =>
         QueueOf(play_scenes(req, fs).sessions, c) \in
           {sessions[c].queue, sessions[c].queue \o BatchCommands(req, fs)}
  /\ \A c \in DOMAIN sessions :
       LET r == get_next_command(c) IN
         /\ IF sessions[c].queue # << >>
              THEN /\ r.response.body = Some(Head(sessions[c].queue))
                   /\ QueueOf(r.sessions, c) = Tail(sessions[c].queue)
              ELSE /\ r.response.body = None
                   /\ QueueOf(r.sessions, c) = << >>
         /\ \A other \in DOMAIN sessions \ {c} :
              QueueOf(r.sessions, other) = sessions[other].queue

\* C3 witness: a scene command was put behind a profile command
C3_Witness ==
  \E c \in DOMAIN sessions :
    sessions[c].queue =
      <<ProfileCommand([profile |-> Some("p1")]),
        SceneCommand("s2", Some(FALSE), None, None, FALSE)>>

\* C4: a play-scene request for a scene that is not defined is answered 404
\* and leaves every queue as it was, whatever its interrupt flag and target
C4_UnknownSceneLeavesQueues ==
  \A req \in PlayRequest, fs \in FileStates :
    (Readable(fs) /\ req.scene \notin Defined(fs)) =>
      LET r == play_scene(req, fs) IN
        /\ r.response.code = 404
        /\ DOMAIN r.sessions = DOMAIN sessions
        /\ \A c \in DOMAIN sessions : QueueOf(r.sessions, c) = sessions[c].queue

\* C5: a play-scene or play-scenes request that fails with 500 because
\* settings.json or scenes.json cannot be read has modified no queue
C5_ReadFailureLeavesQueues ==
  \A fs \in FileStates :
    ~Readable(fs) =>
      /\ \A req \in PlayRequest :
           LET r == play_scene(req, fs) IN
             /\ r.response.code = 500
             /\ \A c \in DOMAIN sessions :
                  QueueOf(r.sessions, c) = sessions[c].queue
      /\ \A req \in PlayScenesRequest :
           LET r == play_scenes(req, fs) IN
             /\ r.response.code = 500
             /\ \A c \in DOMAIN sessions :
                  QueueOf(r.sessions, c) = sessions[c].queue

\* C6: a successful play-scene request with interrupt=true leaves in the
\* queue of every session it targets exactly its own command, flagged
\* interrupt=true
C6_InterruptLeavesOne ==
  \A req \in PlayRequest, fs \in FileStates :
    LET r == play_scene(req, fs) IN
      /\ (req.interrupt = Some(TRUE) /\ Readable(fs) /\ req.scene \in Defined(fs))
           => r.response.code = 200
      /\ (req.interrupt = Some(TRUE) /\ r.response.code = 200) =>
           \A c \in target_sessions(req.client_id) :
             QueueOf(r.sessions, c) =
               <<SceneCommand(req.scene, req.loop, req.audio_url, req.msg, TRUE)>>

\* C6 witness: an interrupting play-scene command stands alone in the queue
\* of both sessions
C6_Witness ==
  /\ DOMAIN sessions = ClientIds
  /\ \A c \in DOMAIN sessions :
       sessions[c].queue = <<SceneCommand("s2", Some(FALSE), None, None, TRUE)>>

\* C7: a play-scenes request appends to every target the commands of the
\* requested names that are defined, in request order, and answers with
\* those names as queued; the first accepted command carries the interrupt
\* flag of the request and no later one carries it
C7_Batch ==
  \A req \in PlayScenesRequest, fs \in FileStates :
    Readable(fs) =>
      LET r == play_scenes(req, fs)
          targets == target_sessions(req.client_id)
      IN /\ r.response.code = 200
         /\ r.response.body.queued = Accepted(req.scenes, fs)
         /\ \A c \in targets :
              QueueOf(r.sessions, c) =
                (IF req.interrupt = Some(TRUE) THEN << >> ELSE sessions[c].queue)
                  \o BatchCommands(req, fs)
         /\ \A c \in DOMAIN sessions \ targets :
              QueueOf(r.sessions, c) = sessions[c].queue

\* C7 witness: an interrupting batch of two scenes is queued, flag on the
\* first only
C7_Witness ==
  \E c \in DOMAIN sessions :
    sessions[c].queue =
      <<SceneCommand("s2", Some(FALSE), None, None, TRUE),
        SceneCommand("s1", Some(FALSE), None, None, FALSE)>>

\* C8: a queued command with interrupt=true is the head of its queue
C8_InterruptAtHead ==
  \A c \in DOMAIN sessions :
    \A i \in 1..Len(sessions[c].queue) :
      sessions[c].queue[i].interrupt => i = 1

\* C8 witness: an interrupting command at the head with a later command
\* queued behind it
C8_Witness ==
  \E c \in DOMAIN sessions :
    /\ Len(sessions[c].queue) = 2
    /\ sessions[c].queue[1].interrupt
    /\ sessions[c].queue[2] = ProfileCommand([profile |-> Some("p1")])

\* C9: a request that carries a client id, the empty string included,
\* targets the session of exactly that id if it exists and no session
\* otherwise; a request without client id targets every session
C9_NamedIdTargetsAtMostOne ==
  \A cid \in ClientIds :
    LET n == IF cid \in DOMAIN sessions THEN 1 ELSE 0 IN
      /\ \A ci \in CommandInput :
           apply_profile(ci).response.body.targets =
             IF ci.client_id = None THEN Cardinality(DOMAIN sessions)
             ELSE IF ci.client_id = Some(cid) THEN n
             ELSE apply_profile(ci).response.body.targets
      /\ \A update \in StatusUpdate :
           update.client_id = Some(cid) =>
             update_status(update).response.body.targets = n
      /\ \A req \in PlayRequest, fs \in FileStates :
           (req.client_id = Some(cid) /\ play_scene(req, fs).response.code = 200) =>
             play_scene(req, fs).response.body.targets = n
      /\ \A req \in PlayScenesRequest, fs \in FileStates :
           (req.client_id = Some(cid) /\ play_scenes(req, fs).response.code = 200) =>
             play_scenes(req, fs).response.body.targets = n

\* C10: a controller request that names a client id without a session
\* succeeds with targets = 0 and changes nothing
C10_UnknownIdIsNoop ==
  \A cid \in ClientIds \ DOMAIN sessions :
    /\ \A ci \in CommandInput :
         ci.client_id = Some(cid) =>
           /\ apply_profile(ci).response.code = 200
           /\ apply_profile(ci).response.body.targets = 0
           /\ apply_profile(ci).sessions = sessions
    /\ \A update \in StatusUpdate :
         update.client_id = Some(cid) =>
           /\ update_status(update).response.code = 200
           /\ update_status(update).response.body.targets = 0
           /\ update_status(update).sessions = sessions
    /\ \A req \in PlayRequest, fs \in FileStates :
         (/\ req.client_id = Some(cid)
          /\ req.interrupt # None
          /\ Readable(fs)
          /\ req.scene \in Defined(fs)) =>
           /\ play_scene(req, fs).response.code = 200
           /\ play_scene(req, fs).response.body.targets = 0
           /\ play_scene(req, fs).sessions = sessions
    /\ \A req \in PlayScenesRequest, fs \in FileStates :
         (req.client_id = Some(cid) /\ Readable(fs)) =>
           /\ play_scenes(req, fs).response.code = 200
           /\ play_scenes(req, fs).response.body.targets = 0
           /\ play_scenes(req, fs).sessions = sessions

\* C11: no controller request adds or removes a session; a poll or a report
\* adds at most the id it carries and removes none; the sweep adds none
C11_SessionSetChanges ==
  /\ \A ci \in CommandInput :
       DOMAIN apply_profile(ci).sessions = DOMAIN sessions
  /\ \A req \in PlayRequest, fs \in FileStates :
       DOMAIN play_scene(req, fs).sessions = DOMAIN sessions
  /\ \A req \in PlayScenesRequest, fs \in FileStates :
       DOMAIN play_scenes(req, fs).sessions = DOMAIN sessions
  /\ DOMAIN get_status.sessions = DOMAIN sessions
  /\ \A update \in StatusUpdate :
       DOMAIN update_status(update).sessions = DOMAIN sessions
  /\ \A cid \in ClientIds :
       DOMAIN get_next_command(cid).sessions = DOMAIN sessions \cup {cid}
  /\ \A report \in StatusReport :
       DOMAIN report_status(report).sessions =
         DOMAIN sessions \cup {report.client_id}
  /\ \A t \in 0..MaxTimeout :
       DOMAIN cleanup_sessions(t) \subseteq DOMAIN sessions

\* C11 witness: one client is known, has been sent a command and has not
\* been seen since the clock advanced; the other id has no session
C11_Witness ==
  /\ DOMAIN sessions = {"a"}
  /\ sessions["a"].queue # << >>
  /\ now = MaxTime
  /\ sessions["a"].last_seen = 0

\* the state dict of a session that has reported nothing yet
DefaultState ==
  [current_profile |-> None, current_scene |-> None, queue_size |-> 0,
   is_looping |-> FALSE, last_report_ts |-> 0, is_muted |-> FALSE,
   is_sync_enabled |-> TRUE]

\* C12: the sweep removes exactly the sessions not seen for longer than the
\* timeout and keeps the others as they are; an id without a session is not
\* listed by GET status, and a poll with it returns no command and creates
\* a session with an empty queue and the default state
C12_Sweep ==
  /\ \A t \in 0..MaxTimeout :
       /\ DOMAIN cleanup_sessions(t) =
            {c \in DOMAIN sessions : ~(now - sessions[c].last_seen > t)}
       /\ \A c \in DOMAIN cleanup_sessions(t) :
            cleanup_sessions(t)[c] = sessions[c]
  /\ \A cid \in ClientIds \ DOMAIN sessions :
       /\ cid \notin DOMAIN get_status.response.body.clients
       /\ get_next_command(cid).response.body = None
       /\ get_next_command(cid).sessions[cid] =
            [queue |-> << >>, state |-> DefaultState, last_seen |-> now]

\* C12 witness: session "a" is stale with a command still queued, session
\* "" has just been seen
C12_Witness ==
  /\ DOMAIN sessions = ClientIds
  /\ now - sessions["a"].last_seen > 0
  /\ sessions["a"].queue # << >>
  /\ now - sessions[""].last_seen = 0
  /\ DOMAIN cleanup_sessions(0) = {""}

\* C13: a report sets the four reported fields of the reporting client's
\* session to the submitted values, creating the session if there is none,
\* keeps is_muted, is_sync_enabled and the queue, changes no other session,
\* and reporting values the session already shows changes no reported state
C13_Report ==
  \A report \in StatusReport :
    LET r == report_status(report)
        cid == report.client_id
        before == IF cid \in DOMAIN sessions
                    THEN sessions[cid]
                    ELSE [queue |-> << >>, state |-> DefaultState,
                          last_seen |-> now]
    IN /\ r.response.code = 200
       /\ cid \in DOMAIN r.sessions
       /\ r.sessions[cid].state.current_profile = report.current_profile
       /\ r.sessions[cid].state.current_scene = report.current_scene
       /\ r.sessions[cid].state.queue_size = report.queue_size
       /\ r.sessions[cid].state.is_looping = report.is_looping
       /\ r.sessions[cid].state.is_muted = before.state.is_muted
       /\ r.sessions[cid].state.is_sync_enabled = before.state.is_sync_enabled
       /\ r.sessions[cid].queue = before.queue
       /\ \A other \in DOMAIN sessions \ {cid} :
            r.sessions[other] = sessions[other]
       /\ (/\ cid \in DOMAIN sessions
           /\ sessions[cid].state.current_profile = report.current_profile
           /\ sessions[cid].state.current_scene = report.current_scene
           /\ sessions[cid].state.queue_size = report.queue_size
           /\ sessions[cid].state.is_looping = report.is_looping)
          => r.sessions[cid].state = sessions[cid].state

\* C13 witness: a session shows reported values next to pushed flags and a
\* queued command
C13_Witness ==
  \E c \in DOMAIN sessions :
    /\ sessions[c].state.current_profile = Some("p1")
    /\ sessions[c].state.is_looping
    /\ sessions[c].state.is_muted
    /\ ~sessions[c].state.is_sync_enabled
    /\ sessions[c].queue # << >>

\* the sessions a request is to reach: all of them without a client id, the
\* one of exactly the given id otherwise
NamedTargets(client_id) ==
  IF client_id = None THEN DOMAIN sessions
                      ELSE {client_id[1]} \cap DOMAIN sessions

\* C14: POST status sets is_muted and is_sync_enabled of every session the
\* request names to the supplied values, keeps a field the request leaves
\* unset, and changes no queue, no reported field and no other session
C14_StatusPush ==
  \A update \in StatusUpdate :
    LET r == update_status(update) IN
      /\ \A c \in NamedTargets(update.client_id) :
           /\ r.sessions[c].state.is_muted =
                IF update.is_muted = None THEN sessions[c].state.is_muted
                                          ELSE update.is_muted[1]
           /\ r.sessions[c].state.is_sync_enabled =
                IF update.is_sync_enabled = None
                  THEN sessions[c].state.is_sync_enabled
                  ELSE update.is_sync_enabled[1]
           /\ r.sessions[c] =
                [sessions[c] EXCEPT
                   !.state.is_muted = r.sessions[c].state.is_muted,
                   !.state.is_sync_enabled = r.sessions[c].state.is_sync_enabled]
      /\ \A c \in DOMAIN sessions \ NamedTargets(update.client_id) :
           r.sessions[c] = sessions[c]

\* C17: GET status lists exactly the existing sessions, each with the
\* length of its server-side queue and its state, counts them, and changes
\* nothing
C17_StatusRead ==
  LET r == get_status IN
    /\ r.response.code = 200
    /\ DOMAIN r.response.body.clients = DOMAIN sessions
    /\ \A c \in DOMAIN sessions :
         /\ r.response.body.clients[c].queue_length = Len(sessions[c].queue)
         /\ r.response.body.clients[c].model_state = sessions[c].state
    /\ r.response.body.active_session_count = Cardinality(DOMAIN sessions)
    /\ r.sessions = sessions

\* C17 witness: a client reported queue_size 1 while the server holds two
\* commands for it, and the clock has advanced since it was seen
C17_Witness ==
  \E c \in DOMAIN sessions :
    /\ sessions[c].state.queue_size = 1
    /\ Len(sessions[c].queue) = 2
    /\ now - sessions[c].last_seen > 0

\* C19: a poll or a report with the id of an existing session keeps that
\* session's queue (a poll takes the head) and its pushed flags, and a first
\* poll or report of another client leaves the session as it is
C19_SameSession ==
  \A cid \in DOMAIN sessions :
    /\ get_or_create_session(cid)[cid] = [sessions[cid] EXCEPT !.last_seen = now]
    /\ LET r == get_next_command(cid) IN
         /\ r.sessions[cid].state = sessions[cid].state
         /\ r.sessions[cid].queue =
              IF sessions[cid].queue = << >> THEN << >>
                                             ELSE Tail(sessions[cid].queue)
    /\ \A report \in StatusReport :
         report.client_id = cid =>
           LET r == report_status(report) IN
             /\ r.sessions[cid].queue = sessions[cid].queue
             /\ r.sessions[cid].state.is_muted = sessions[cid].state.is_muted
             /\ r.sessions[cid].state.is_sync_enabled =
                  sessions[cid].state.is_sync_enabled
    /\ \A other \in ClientIds \ DOMAIN sessions :
         /\ get_next_command(other).sessions[cid] = sessions[cid]
         /\ \A report \in StatusReport :
              report.client_id = other =>
                report_status(report).sessions[cid] = sessions[cid]

\* C19 witness: a session seen at the current, advanced time still holds a
\* command and a pushed mute flag
C19_Witness ==
  \E c \in DOMAIN sessions :
    /\ now = MaxTime
    /\ sessions[c].last_seen = now
    /\ sessions[c].state.is_muted
    /\ sessions[c].queue # << >>

IsPrefix(p, q) == Len(p) <= Len(q) /\ SubSeq(q, 1, Len(p)) = p

\* C15: applyProfile is answered "queued", puts exactly one profile command
\* with interrupt=false behind the previous contents of the queue of every
\* session the request names, and shortens or empties no queue
C15_ProfileAppends ==
  \A ci \in CommandInput :
    LET r == apply_profile(ci) IN
      /\ r.response.code = 200
      /\ r.response.body.status = "queued"
      /\ DOMAIN r.sessions = DOMAIN sessions
      /\ \A c \in NamedTargets(ci.client_id) :
           QueueOf(r.sessions, c) =
             sessions[c].queue \o
               <<[payload |-> [profile |-> ci.profile], interrupt |-> FALSE]>>
      /\ \A c \in DOMAIN sessions :
           /\ IsPrefix(sessions[c].queue, QueueOf(r.sessions, c))
           /\ Len(QueueOf(r.sessions, c)) <= Len(sessions[c].queue) + 1
           /\ \A i \in Len(sessions[c].queue) + 1 .. Len(QueueOf(r.sessions, c)) :
                ~QueueOf(r.sessions, c)[i].interrupt

\* C15 witness: a profile command was put behind a profile command
C15_Witness ==
  \E c \in DOMAIN sessions :
    sessions[c].queue =
      <<ProfileCommand([profile |-> Some("p1")]),
        ProfileCommand([profile |-> Some("p1")])>>

\* C16: a poll on a non-empty queue returns the head and leaves a queue
\* shorter by exactly that one command, a poll on an empty or new queue
\* returns nothing and leaves it empty, and every request that is neither a
\* poll of that client nor an interrupt nor a sweep keeps what is queued
C16_ConsumedOnce ==
  /\ \A cid \in ClientIds :
       LET old == IF cid \in DOMAIN sessions THEN sessions[cid].queue ELSE << >>
           r == get_next_command(cid)
       IN /\ r.response.code = 200
          /\ IF old # << >>
               THEN /\ r.response.body = <<old[1]>>
                    /\ Len(QueueOf(r.sessions, cid)) = Len(old) - 1
                    /\ <<old[1]>> \o QueueOf(r.sessions, cid) = old
               ELSE /\ r.response.body = << >>
                    /\ QueueOf(r.sessions, cid) = << >>
          /\ \A c \in DOMAIN sessions \ {cid} :
               QueueOf(r.sessions, c) = sessions[c].queue
  /\ \A c \in DOMAIN sessions :
       /\ \A ci \in CommandInput :
            IsPrefix(sessions[c].queue, QueueOf(apply_profile(ci).sessions, c))
       /\ \A req \in PlayRequest, fs \in FileStates :
            req.interrupt # Some(TRUE) =>
              IsPrefix(sessions[c].queue, QueueOf(play_scene(req, fs).sessions, c))
       /\ \A req \in PlayScenesRequest, fs \in FileStates :
            req.interrupt # Some(TRUE) =>
              IsPrefix(sessions[c].queue, QueueOf(play_scenes(req, fs).sessions, c))
       /\ \A report \in StatusReport :
            QueueOf(report_status(report).sessions, c) = sessions[c].queue
       /\ \A update \in StatusUpdate :
            QueueOf(update_status(update).sessions, c) = sessions[c].queue
       /\ QueueOf(get_status.sessions, c) = sessions[c].queue

\* C16 witness: one client has two different commands waiting while the
\* other has polled its queue empty
C16_Witness ==
  /\ DOMAIN sessions = ClientIds
  /\ sessions[""].queue = << >>
  /\ Len(sessions["a"].queue) = 2
  /\ sessions["a"].queue[1] # sessions["a"].queue[2]

\* C20: an interrupting playScenes request of which no scene name is defined
\* is answered 200 with queued = [] and leaves the queue of every session
\* it names empty
C20_EmptyBatchClears ==
  \A req \in PlayScenesRequest, fs \in FileStates :
    (/\ req.interrupt = Some(TRUE)
     /\ Readable(fs)
     /\ Accepted(req.scenes, fs) = << >>) =>
      LET r == play_scenes(req, fs) IN
        /\ r.response.code = 200
        /\ r.response.body.status = "ok"
        /\ r.response.body.queued = << >>
        /\ \A c \in NamedTargets(req.client_id) : QueueOf(r.sessions, c) = << >>

\* C20 witness: a full queue that an interrupting batch of unknown names
\* only empties
C20_Witness ==
  \E req \in PlayScenesRequest, fs \in FileStates :
    /\ req.interrupt = Some(TRUE)
    /\ req.scenes # << >>
    /\ Readable(fs)
    /\ Accepted(req.scenes, fs) = << >>
    /\ \E c \in NamedTargets(req.client_id) :
         /\ Len(sessions[c].queue) = MaxQueue
         /\ QueueOf(play_scenes(req, fs).sessions, c) = << >>

\* the commands the running scene handler can still append
RunningCommands ==
  IF running[1].endpoint = "playScene"
    THEN {<< >>,
          <<SceneCommand(running[1].request.scene, running[1].request.loop,
                         running[1].request.audio_url, running[1].request.msg,
                         running[1].request.interrupt = Some(TRUE))>>}
    ELSE {BatchCommands(running[1].request, fs) : fs \in FileStates} \cup {<< >>}

\* C18: while a scene handler is between its interrupt clear and its append,
\* a cleared queue is empty, and the only step that touches a session is
\* that handler's own append: no poll creates, empties or marks a session
\* and no other command enters a queue before the handler has finished
C18_ClearEnqueueAtomic ==
  [][running # None =>
       /\ running[1].request.interrupt = Some(TRUE) =>
            \A c \in running[1].targets : sessions[c].queue = << >>
       /\ \/ sessions' = sessions /\ running' = running
          \/ /\ running' = None
             /\ DOMAIN sessions' = DOMAIN sessions
             /\ \E commands \in RunningCommands :
                  \A c \in DOMAIN sessions :
                    sessions'[c] =
                      IF c \in running[1].targets
                        THEN [sessions[c] EXCEPT !.queue = @ \o commands]
                        ELSE sessions[c]]_vars

\* C18 witness: an interrupting scene handler has cleared the queue of a
\* session that was seen before the clock advanced and has not appended
\* yet, while a second session holds a command
C18_Witness ==
  /\ running # None
  /\ running[1].request.interrupt = Some(TRUE)
  /\ running[1].targets = {"a"}
  /\ DOMAIN sessions = ClientIds
  /\ sessions["a"].last_seen < now
  /\ sessions[""].queue # << >>

\* the sessions of the dict s that a sweep with timeout t finds stale
Stale(s, t) == {c \in DOMAIN s : now - s[c].last_seen > t}

\* the last_seen of every session of the dict s that is also in `sessions`
\* is as it is in `sessions`
SameLastSeen(s) ==
  \A c \in DOMAIN sessions :
    c \in DOMAIN s /\ s[c].last_seen = sessions[c].last_seen

\* C21: no controller request and no other client's poll or report changes
\* a session's last_seen, the client's own poll or report sets it to the
\* current time; a sweep removes exactly the stale sessions, so a session
\* that was only sent commands stays stale and one that has just polled or
\* reported is kept
C21_LastSeen ==
  /\ \A ci \in CommandInput : SameLastSeen(apply_profile(ci).sessions)
  /\ \A req \in PlayRequest, fs \in FileStates :
       SameLastSeen(play_scene(req, fs).sessions)
  /\ \A req \in PlayScenesRequest, fs \in FileStates :
       SameLastSeen(play_scenes(req, fs).sessions)
  /\ \A update \in StatusUpdate : SameLastSeen(update_status(update).sessions)
  /\ SameLastSeen(get_status.sessions)
  /\ \A cid \in ClientIds :
       LET polled == get_next_command(cid).sessions IN
         /\ polled[cid].last_seen = now
         /\ \A c \in DOMAIN sessions \ {cid} :
              polled[c].last_seen = sessions[c].last_seen
         /\ \A t \in 0..MaxTimeout : cid \notin Stale(polled, t)
  /\ \A report \in StatusReport :
       LET reported == report_status(report).sessions IN
         /\ reported[report.client_id].last_seen = now
         /\ \A c \in DOMAIN sessions \ {report.client_id} :
              reported[c].last_seen = sessions[c].last_seen
         /\ \A t \in 0..MaxTimeout : report.client_id \notin Stale(reported, t)
  /\ \A t \in 0..MaxTimeout :
       /\ DOMAIN cleanup_sessions(t) = DOMAIN sessions \ Stale(sessions, t)
       /\ \A ci \in CommandInput :
            Stale(apply_profile(ci).sessions, t) = Stale(sessions, t)
       /\ \A update \in StatusUpdate :
            Stale(update_status(update).sessions, t) = Stale(sessions, t)

\* C21 witness: a session that was sent commands and a mute flag after its
\* last poll has gone stale, next to a session that has just reported
C21_Witness ==
  /\ DOMAIN sessions = ClientIds
  /\ Len(sessions["a"].queue) = MaxQueue
  /\ sessions["a"].state.is_muted
  /\ "a" \in Stale(sessions, 0)
  /\ sessions[""].state.current_profile # None
  /\ sessions[""].last_seen = now
  /\ DOMAIN cleanup_sessions(0) = {""}

\* a command is waiting for client c
HasCommand(c) == c \in DOMAIN sessions /\ sessions[c].queue # << >>

\* the step that takes the head off the queue of client c
Delivered(c) ==
  /\ HasCommand(c)
  /\ sessions'[c].queue = Tail(sessions[c].queue)

\* C22: for a client that keeps polling and is neither interrupted nor
\* swept, again and again either nothing is waiting or the head of its queue
\* is taken; as a queue is taken head first and nothing is put in front, a
\* command behind finitely many others is then taken too, also when the
\* controllers never let the queue run empty
C22_EventuallyDelivered ==
  \A c \in ClientIds :
    ([]<>(~HasCommand(c))) \/ ([]<><<Delivered(c)>>_vars)

\* C22 witness: client "a" has polled at the current time and still has a
\* command waiting, which it reported, while the queue of the other client
\* has been filled up
C22_Witness ==
  /\ DOMAIN sessions = ClientIds
  /\ now = MaxTime
  /\ sessions["a"].last_seen = now
  /\ Len(sessions["a"].queue) = 1
  /\ sessions["a"].state.queue_size = 1
  /\ Len(sessions[""].queue) = MaxQueue

====
